---------------------------- MODULE Spec2Model ----------------------------
(***************************************************************************)
(* DOI Monitor (src/main.py): a Streamlit script that turns an uploaded    *)
(* workbook (sheets "Sales" and "Inventory") into a base table of          *)
(* (city, sku) rows, and shows one of five aggregated views with a         *)
(* days-of-inventory column.  Tables are sets of records (row order is     *)
(* never observed by the properties below); dates are day numbers.         *)
(***************************************************************************)
EXTENDS Integers, Sequences, FiniteSets, TLC

VARIABLES
    uploaded_file,   \* <<>> (None) or <<workbook>>: st.sidebar.file_uploader
    days,            \* st.sidebar.number_input "Number of days"
    session_state,   \* st.session_state: key -> value
    sales_df,        \* normalized sales table of the last run
    inventory_df,    \* normalized inventory table of the last run
    base_df,         \* base table of the last run
    cache,           \* st.cache_data store of create_doi_base: key -> table
    cache_hit,       \* whether the last create_doi_base call was served from the store
    temp,            \* the grouped table handed to calculate_doi
    branch,          \* which rule of the if/elif chain ran in the last run (0: none)
    result_df,       \* the result table of the last run
    display          \* what the page shows

vars == <<uploaded_file, days, session_state, sales_df, inventory_df, base_df,
          cache, cache_hit, temp, branch, result_df, display>>

-----------------------------------------------------------------------------
(* Bounds of the model *)

\* dates in a sheet are day numbers 1..MaxDate
MaxDate == 2
\* window lengths offered besides the default: 1..MaxDays
MaxDays == 2
\* data rows of one workbook, both sheets together
MaxRows == 3
\* rows of a workbook handed to the filter stage on its own
MaxFilterRows == 2
\* inventory_units of a row handed to calculate_doi on its own: 0..MaxUnits
MaxUnits == 9
\* sales_qty of a row handed to calculate_doi on its own: 0..MaxSales
MaxSales == 9
\* window lengths handed to calculate_doi on its own: 1..MaxDoiDays
MaxDoiDays == 7

-----------------------------------------------------------------------------
(* Program constants *)

\* number_input(value=7)
DefaultDays == 7

\* pandas' missing timestamp (max of an empty datetime column)
NaT == -999999
\* pandas' missing number (a cell an outer merge could not fill)
NaNNum == -1
\* pandas' missing string (an empty cell)
NaN == "NaN"

\* float64: 53 significand bits, held here as hi * 2^27 + lo
MantBits == 53
B27 == 2^27

-----------------------------------------------------------------------------
(* float64 arithmetic of numpy, on exact integers.  A positive double is    *)
(* m * 2^e with 2^52 <= m < 2^53; m is the pair <<hi, lo>> = hi*2^27 + lo.  *)

BigDbl(x) == LET l2 == 2 * x[2] IN <<2 * x[1] + (l2 \div B27), l2 % B27>>

BigHalve(x) == <<x[1] \div 2, (x[1] % 2) * (B27 \div 2) + (x[2] \div 2)>>

BigGe(a, b) == a[1] > b[1] \/ (a[1] = b[1] /\ a[2] >= b[2])

BigSub(a, b) ==
    IF a[2] >= b[2] THEN <<a[1] - b[1], a[2] - b[2]>>
                    ELSE <<a[1] - b[1] - 1, a[2] + B27 - b[2]>>

BigInc(a) == IF a[2] + 1 < B27 THEN <<a[1], a[2] + 1>> ELSE <<a[1] + 1, 0>>

\* x shifted right by k bits, 0 <= k <= 53
BigShr(x, k) ==
    IF k >= 27 THEN <<0, x[1] \div 2^(k - 27)>>
    ELSE <<x[1] \div 2^k, (x[1] % 2^k) * 2^(27 - k) + (x[2] \div 2^k)>>

BigToInt(x) == x[1] * B27 + x[2]

\* number of bits of n, 1 <= n < 2^26
BitLen(n) == CHOOSE k \in 1..26 : 2^(k - 1) <= n /\ n < 2^k

\* the double equal to a positive integer n < 2^26 (exact)
FloatOfInt(n) ==
    [m |-> <<n * 2^(26 - BitLen(n)), 0>>, e |-> BitLen(n) - MantBits]

\* one quotient bit of r / mb by shift and subtract; st = [i, r, q]
DivStep(st, mb) ==
    IF BigGe(st.r, mb)
    THEN [i |-> st.i - 1, r |-> BigDbl(BigSub(st.r, mb)), q |-> BigInc(BigDbl(st.q))]
    ELSE [i |-> st.i - 1, r |-> BigDbl(st.r), q |-> BigDbl(st.q)]

RECURSIVE DivLoop(_, _)
DivLoop(st, mb) == IF st.i = 0 THEN st ELSE DivLoop(DivStep(st, mb), mb)

\* the 53 quotient bits d.q with remainder d.r, rounded to nearest, ties to even
RoundQuotient(d, mb, e0) ==
    IF (IF d.r = mb THEN d.q[2] % 2 = 1 ELSE BigGe(d.r, mb))
    THEN IF BigInc(d.q)[1] >= 2^(MantBits - 27)
         THEN [m |-> BigHalve(BigInc(d.q)), e |-> e0 + 1 - (MantBits - 1)]
         ELSE [m |-> BigInc(d.q), e |-> e0 - (MantBits - 1)]
    ELSE [m |-> d.q, e |-> e0 - (MantBits - 1)]

\* a / b in float64
FloatDiv(a, b) ==
    IF BigGe(a.m, b.m)
    THEN RoundQuotient(DivLoop([i |-> MantBits, r |-> a.m, q |-> <<0, 0>>], b.m),
                       b.m, a.e - b.e)
    ELSE RoundQuotient(DivLoop([i |-> MantBits, r |-> BigDbl(a.m), q |-> <<0, 0>>], b.m),
                       b.m, a.e - b.e - 1)

\* np.floor(x).astype(int) of a positive double below 2^31
FloatFloor(f) ==
    IF f.e >= 0 THEN BigToInt(f.m) * 2^(f.e)
    ELSE IF 0 - f.e > MantBits THEN 0
    ELSE BigToInt(BigShr(f.m, 0 - f.e))

-----------------------------------------------------------------------------
(* DOI CALCULATION *)

\* one element of the nested np.where, then floor and astype(int)
RowDoi(inventory_units, sales_qty, n_days) ==
    IF inventory_units = 0 THEN 0
    ELSE IF sales_qty = 0 THEN inventory_units
    ELSE FloatFloor(FloatDiv(FloatOfInt(inventory_units),
                             FloatDiv(FloatOfInt(sales_qty), FloatOfInt(n_days))))

calculate_doi(df, n_days) ==
    { r @@ [doi |-> RowDoi(r.inventory_units, r.sales_qty, n_days)] : r \in df }

-----------------------------------------------------------------------------
(* CITY MAPPINGS *)

SALES_CITY_MAPPING ==
    "Agra" :> "Agra" @@
    "Ahmedabad Rural" :> "Ahmedabad-Gandhinagar" @@
    "Ahmedabad-Gandhinagar" :> "Ahmedabad-Gandhinagar" @@
    "Allahabad" :> "Allahabad" @@
    "Bangalore" :> "Bangalore" @@
    "Bangalore Rural" :> "Bangalore" @@
    "Bhopal" :> "Bhopal" @@
    "Bhubaneshwar-Cuttack" :> "Bhubaneshwar-Cuttack" @@
    "Bhubaneswar Rural" :> "Bhubaneshwar-Cuttack" @@
    "Chandigarh Tricity" :> "Chandigarh Tricity" @@
    "Chennai" :> "Chennai" @@
    "Chennai Rural" :> "Chennai" @@
    "Coimbatore" :> "Coimbatore" @@
    "DehraDun" :> "DehraDun" @@
    "Gurgaon" :> "Delhi" @@
    "Gurugram Rural" :> "Delhi" @@
    "Guwahati" :> "Guwahati" @@
    "Hyderabad" :> "Hyderabad" @@
    "Hyderabad Rural" :> "Hyderabad" @@
    "Indore" :> "Indore" @@
    "Kochi" :> "Kochi" @@
    "Kochi Rural" :> "Kochi" @@
    "Kolkata" :> "Kolkata" @@
    "Kolkata Rural" :> "Kolkata" @@
    "Kozhikode" :> "Kozhikode" @@
    "Lucknow Rural" :> "Lucknow-Kanpur" @@
    "Lucknow-Kanpur" :> "Lucknow-Kanpur" @@
    "Mangaluru" :> "Mangaluru" @@
    "Mumbai" :> "Mumbai" @@
    "Mumbai Rural" :> "Mumbai" @@
    "Mysore" :> "Mysore" @@
    "Nagpur" :> "Nagpur" @@
    "Nashik" :> "Nashik" @@
    "Noida" :> "Noida" @@
    "Noida Rural" :> "Noida" @@
    "Patna" :> "Patna" @@
    "Patna Rural" :> "Patna" @@
    "Pune" :> "Pune" @@
    "Pune Rural" :> "Pune" @@
    "Raipur" :> "Raipur" @@
    "Ranchi" :> "Ranchi" @@
    "Ranchi Rural" :> "Ranchi" @@
    "Surat" :> "Surat" @@
    "Thiruvananthapuram" :> "Thiruvananthapuram" @@
    "Vadodara" :> "Vadodara" @@
    "Vijayawada-Guntur" :> "Vijayawada-Guntur" @@
    "Visakhapatnam" :> "Visakhapatnam" @@
    "Vizag Rural" :> "Visakhapatnam"

INVENTORY_CITY_MAPPING ==
    "Agra" :> "Agra" @@
    "Ahmedabad-Gandhinagar" :> "Ahmedabad-Gandhinagar" @@
    "Allahabad" :> "Allahabad" @@
    "Bangalore" :> "Bangalore" @@
    "Bhopal" :> "Bhopal" @@
    "Bhubaneshwar-Cuttack" :> "Bhubaneshwar-Cuttack" @@
    "Chandigarh Tricity" :> "Chandigarh Tricity" @@
    "Chennai" :> "Chennai" @@
    "Coimbatore" :> "Coimbatore" @@
    "DehraDun" :> "DehraDun" @@
    "Delhi" :> "Delhi" @@
    "Gurgaon" :> "Delhi" @@
    "Guwahati" :> "Guwahati" @@
    "Gwalior" :> "Gwalior" @@
    "Hyderabad" :> "Hyderabad" @@
    "Indore" :> "Indore" @@
    "Kochi" :> "Kochi" @@
    "Kolkata" :> "Kolkata" @@
    "Kozhikode" :> "Kozhikode" @@
    "Lucknow-Kanpur" :> "Lucknow-Kanpur" @@
    "Ludhiana" :> "Ludhiana" @@
    "Mangaluru" :> "Mangaluru" @@
    "Mumbai" :> "Mumbai" @@
    "Mysore" :> "Mysore" @@
    "Nagpur" :> "Nagpur" @@
    "Nashik" :> "Nashik" @@
    "Noida" :> "Noida" @@
    "Patna" :> "Patna" @@
    "Pune" :> "Pune" @@
    "Raipur" :> "Raipur" @@
    "Ranchi" :> "Ranchi" @@
    "Surat" :> "Surat" @@
    "Thiruvananthapuram" :> "Thiruvananthapuram" @@
    "Vadodara" :> "Vadodara" @@
    "Vijayawada-Guntur" :> "Vijayawada-Guntur" @@
    "Visakhapatnam" :> "Visakhapatnam"

\* Series.replace(mapping): a name without an entry is left as it is
Replace(mapping, name) == IF name \in DOMAIN mapping THEN mapping[name] ELSE name

-----------------------------------------------------------------------------
(* The workbooks of the model *)

Dates == 1..MaxDate
RawCities == {"Gurgaon", "Delhi", "Mumbai"}
\* (sku id, description) pairs of a sheet; NaN is an empty description cell
SkuCatalog == {<<"S1", "A">>, <<"S1", "B">>, <<"S2", "B">>, <<"S2", NaN>>}
Quantities == {1}

SalesRows ==
    { [date_range |-> d, source_city_name |-> c, source_sku_id |-> k[1],
       sku_description |-> k[2], total_quantity |-> q] :
        d \in Dates, c \in RawCities, k \in SkuCatalog, q \in Quantities }

InventoryRows ==
    { [city |-> c, sku_id |-> k[1], sku_description |-> k[2], soh |-> q] :
        c \in RawCities, k \in SkuCatalog, q \in Quantities }

\* the subsets of S with at most n elements
RECURSIVE SubsetsUpTo(_, _)
SubsetsUpTo(S, n) ==
    IF n = 0 THEN {{}}
    ELSE LET smaller == SubsetsUpTo(S, n - 1)
         IN  smaller \cup { T \cup {x} : T \in smaller, x \in S }

\* workbooks with at most n data rows
Workbooks(n) ==
    { [Sales |-> { r.row : r \in { x \in T : x.sheet = "Sales" } },
       Inventory |-> { r.row : r \in { x \in T : x.sheet = "Inventory" } }] :
        T \in SubsetsUpTo({ [sheet |-> "Sales", row |-> r] : r \in SalesRows } \cup
                          { [sheet |-> "Inventory", row |-> r] : r \in InventoryRows }, n) }

Files == Workbooks(MaxRows)

-----------------------------------------------------------------------------
(* Table helpers *)

\* Series.sum() of column col
RECURSIVE SumField(_, _)
SumField(rows, col) ==
    IF rows = {} THEN 0
    ELSE LET r == CHOOSE x \in rows : TRUE
         IN  r[col] + SumField(rows \ {r}, col)

\* sort order of the description strings (pandas sorts group keys)
StrRank(s) == CASE s = "A" -> 1 [] s = "B" -> 2 [] OTHER -> 3

-----------------------------------------------------------------------------
(* PREPROCESSING *)

\* lines 109-124: replace, to_datetime, groupby (rows with a NaN key are
\* dropped), sum, rename
SalesProcessed(sheet) ==
    LET mapped == { [date_range |-> r.date_range,
                     city |-> Replace(SALES_CITY_MAPPING, r.source_city_name),
                     sku_id |-> r.source_sku_id,
                     sku_description |-> r.sku_description,
                     raw_city |-> r.source_city_name,
                     total_quantity |-> r.total_quantity] : r \in sheet }
        kept   == { r \in mapped : r.sku_description # NaN }
        keys   == { <<r.date_range, r.city, r.sku_id, r.sku_description>> : r \in kept }
    IN  { [date_range |-> k[1], city |-> k[2], sku_id |-> k[3],
           sku_description |-> k[4],
           sales_qty |-> SumField({ r \in kept :
                             <<r.date_range, r.city, r.sku_id, r.sku_description>> = k },
                             "total_quantity")] : k \in keys }

\* variant of InventoryProcessed whose groupby keeps rows with a NaN key
\* (dropna=False); C10 must tell the two apart
InventoryProcessedKeepNaN(sheet) ==
    { [city |-> k[1], sku_id |-> k[2], sku_description |-> k[3],
       inventory_units |-> SumField({ r \in sheet :
           <<Replace(INVENTORY_CITY_MAPPING, r.city), r.sku_id, r.sku_description>> = k },
           "soh")] :
      k \in { <<Replace(INVENTORY_CITY_MAPPING, r.city), r.sku_id, r.sku_description>> :
                r \in sheet } }

\* lines 127-134
InventoryProcessed(sheet) ==
    LET mapped == { [city |-> Replace(INVENTORY_CITY_MAPPING, r.city),
                     sku_id |-> r.sku_id,
                     sku_description |-> r.sku_description,
                     raw_city |-> r.city,
                     soh |-> r.soh] : r \in sheet }
        kept   == { r \in mapped : r.sku_description # NaN }
        keys   == { <<r.city, r.sku_id, r.sku_description>> : r \in kept }
    IN  { [city |-> k[1], sku_id |-> k[2], sku_description |-> k[3],
           inventory_units |-> SumField({ r \in kept :
                             <<r.city, r.sku_id, r.sku_description>> = k }, "soh")] :
          k \in keys }

preprocess_data(file) ==
    <<SalesProcessed(file.Sales), InventoryProcessed(file.Inventory)>>

-----------------------------------------------------------------------------
(* DOI BASE FILE CREATION *)

\* Series.max() of a datetime column: NaT when the column is empty
MaxDateOf(df) ==
    IF df = {} THEN NaT
    ELSE CHOOSE m \in { r.date_range : r \in df } :
             \A r \in df : r.date_range <= m

\* Timestamp - Timedelta(days=k); NaT stays NaT
TsMinusDays(ts, k) == IF ts = NaT THEN NaT ELSE ts - k

\* comparisons with NaT are False
TsGe(a, b) == a # NaT /\ b # NaT /\ a >= b
TsLe(a, b) == a # NaT /\ b # NaT /\ a <= b

\* lines 146-149
filtered_sales(df, start_date, max_date) ==
    { r \in df : TsGe(r.date_range, start_date) /\ TsLe(r.date_range, max_date) }

\* agg "first": the description of the group's first row, the rows being in
\* the order preprocess_data's groupby left them (date, city, sku, description)
FirstDescription(group) ==
    (CHOOSE r \in group :
        \A o \in group :
            \/ r.date_range < o.date_range
            \/ /\ r.date_range = o.date_range
               /\ StrRank(r.sku_description) <= StrRank(o.sku_description)).sku_description

\* lines 151-158
sales_n_days(filtered) ==
    { [sku_id |-> k[1], city |-> k[2],
       sales_qty |-> SumField({ r \in filtered : <<r.sku_id, r.city>> = k }, "sales_qty"),
       sku_description |->
           FirstDescription({ r \in filtered : <<r.sku_id, r.city>> = k })] :
      k \in { <<r.sku_id, r.city>> : r \in filtered } }

\* lines 160-166: pd.merge(how="outer", on=["sku_id", "city"])
MergeOuter(inv, sales) ==
    { [city |-> p[1].city, sku_id |-> p[1].sku_id,
       sku_description_inv |-> p[1].sku_description,
       inventory_units |-> p[1].inventory_units,
       sales_qty |-> p[2].sales_qty,
       sku_description_sales |-> p[2].sku_description] :
        p \in { x \in inv \X sales :
                   x[1].sku_id = x[2].sku_id /\ x[1].city = x[2].city } }
    \cup
    { [city |-> i.city, sku_id |-> i.sku_id,
       sku_description_inv |-> i.sku_description,
       inventory_units |-> i.inventory_units,
       sales_qty |-> NaNNum,
       sku_description_sales |-> NaN] :
        i \in { x \in inv : \A s \in sales : s.sku_id # x.sku_id \/ s.city # x.city } }
    \cup
    { [city |-> s.city, sku_id |-> s.sku_id,
       sku_description_inv |-> NaN,
       inventory_units |-> NaNNum,
       sales_qty |-> s.sales_qty,
       sku_description_sales |-> s.sku_description] :
        s \in { x \in sales : \A i \in inv : i.sku_id # x.sku_id \/ i.city # x.city } }

\* Series.combine_first
CombineFirst(a, b) == IF a # NaN THEN a ELSE b

\* Series.fillna(0)
FillNa0(x) == IF x = NaNNum THEN 0 ELSE x

\* variant of StartDate that reaches back N days instead of N-1; C4 must
\* tell the two apart
StartDateOff(max_date, n_days) == TsMinusDays(max_date, n_days)

\* line 144
StartDate(max_date, n_days) == TsMinusDays(max_date, n_days - 1)

\* the body of create_doi_base, lines 143-178
create_doi_base(sales, inventory, n_days) ==
    LET max_date   == MaxDateOf(sales)
        start_date == StartDate(max_date, n_days)
        final_df   == MergeOuter(inventory,
                          sales_n_days(filtered_sales(sales, start_date, max_date)))
    IN  { [city |-> r.city, sku_id |-> r.sku_id,
           sku_description |->
               CombineFirst(r.sku_description_inv, r.sku_description_sales),
           inventory_units |-> FillNa0(r.inventory_units),
           sales_qty |-> FillNa0(r.sales_qty)] : r \in final_df }

-----------------------------------------------------------------------------
(* FILTERS and DATA PROCESSING (PRIORITY DRIVEN) *)

SelectionKeys == {"pan_mode", "selected_sku", "selected_city"}
PanModes == {"None", "Product Wise", "City Wise"}

\* lines 249-250: the options of the two selectboxes
sku_list(base) == {"None"} \cup ({ r.sku_description : r \in base } \ {NaN})
city_list(base) == {"None"} \cup ({ r.city : r \in base } \ {NaN})

\* df.groupby(cols, as_index=False).agg({"sales_qty": "sum", "inventory_units": "sum"});
\* rows with a NaN key are dropped
GroupSum(rows, cols) ==
    LET kept == { r \in rows : \A c \in cols : r[c] # NaN }
    IN  { k @@ [sales_qty |-> SumField({ r \in kept : [c \in cols |-> r[c]] = k },
                                       "sales_qty"),
                inventory_units |-> SumField({ r \in kept : [c \in cols |-> r[c]] = k },
                                             "inventory_units")] :
          k \in { [c \in cols |-> r[c]] : r \in kept } }

\* the five views, lines 277-286, 292-300, 306-314, 320-326, 332-338
SkuCityView(base, sku, city) ==
    GroupSum({ r \in base : r.sku_description = sku /\ r.city = city },
             {"sku_description", "city"})
SkuView(base, sku) ==
    GroupSum({ r \in base : r.sku_description = sku }, {"sku_description", "city"})
CityView(base, city) ==
    GroupSum({ r \in base : r.city = city }, {"city", "sku_description"})
ProductWiseView(base) == GroupSum(base, {"sku_description"})
CityWiseView(base) == GroupSum(base, {"city"})

\* variant of BranchOf that tests pan_mode before the individual filters; C1
\* must tell the two apart
BranchOfPanFirst(sku, city, mode) ==
    IF mode = "Product Wise" THEN 4
    ELSE IF mode = "City Wise" THEN 5
    ELSE IF sku # "None" /\ city # "None" THEN 1
    ELSE IF sku # "None" THEN 2
    ELSE IF city # "None" THEN 3
    ELSE 0

\* the rule the if/elif chain of lines 276-331 takes (0: none)
BranchOf(sku, city, mode) ==
    IF sku # "None" /\ city # "None" THEN 1
    ELSE IF sku # "None" THEN 2
    ELSE IF city # "None" THEN 3
    ELSE IF mode = "Product Wise" THEN 4
    ELSE IF mode = "City Wise" THEN 5
    ELSE 0

\* temp of the rule taken
TempOf(b, base, sku, city) ==
    CASE b = 1 -> SkuCityView(base, sku, city)
      [] b = 2 -> SkuView(base, sku)
      [] b = 3 -> CityView(base, city)
      [] b = 4 -> ProductWiseView(base)
      [] b = 5 -> CityWiseView(base)
      [] OTHER -> {}

\* lines 347-354: DataFrame.empty decides what is shown
DisplayOf(result) == IF result = {} THEN "info_select" ELSE "dataframe"

-----------------------------------------------------------------------------
(* The script, top to bottom *)

\* variant of CacheKey that leaves the window length out of the key; C9 must
\* tell the two apart
CacheKeyNoDays(sales, inventory, n_days) == <<sales, inventory, 0>>

\* st.cache_data keys create_doi_base by the content of its arguments
CacheKey(sales, inventory, n_days) == <<sales, inventory, n_days>>

\* lines 228-230
WithDefaults(ss) == [k \in SelectionKeys |-> IF k \in DOMAIN ss THEN ss[k] ELSE "None"]

\* one run of the script with the widgets at uf, n and the session state ss
RunScript(uf, n, ss) ==
    /\ uploaded_file' = uf
    /\ days' = n
    /\ IF uf = <<>>
       THEN /\ display' = "info_upload"
            /\ session_state' = ss
            /\ UNCHANGED <<sales_df, inventory_df, base_df, cache, cache_hit,
                           temp, branch, result_df>>
       ELSE /\ sales_df' = preprocess_data(uf[1])[1]
            /\ inventory_df' = preprocess_data(uf[1])[2]
            /\ cache_hit' = (CacheKey(sales_df', inventory_df', n) \in DOMAIN cache)
            /\ base_df' = IF cache_hit'
                          THEN cache[CacheKey(sales_df', inventory_df', n)]
                          ELSE create_doi_base(sales_df', inventory_df', n)
            /\ cache' = IF cache_hit' THEN cache
                        ELSE cache @@ (CacheKey(sales_df', inventory_df', n) :> base_df')
            /\ session_state' = WithDefaults(ss)
            /\ branch' = BranchOf(session_state'.selected_sku,
                                  session_state'.selected_city,
                                  session_state'.pan_mode)
            /\ temp' = TempOf(branch', base_df', session_state'.selected_sku,
                              session_state'.selected_city)
            /\ result_df' = IF branch' = 0 THEN {} ELSE calculate_doi(temp', n)
            /\ display' = DisplayOf(result_df')

NoSession == [k \in {} |-> "None"]

InitRest ==
    /\ sales_df = {} /\ inventory_df = {} /\ base_df = {}
    /\ cache = <<>> /\ cache_hit = FALSE
    /\ temp = {} /\ branch = 0 /\ result_df = {}

-----------------------------------------------------------------------------
(* SpecBase: one run of the script on any workbook and window length *)

InitBase ==
    /\ uploaded_file \in { <<f>> : f \in Files }
    /\ days \in 1..MaxDays
    /\ session_state = NoSession
    /\ display = "start"
    /\ InitRest

FirstRun == display = "start" /\ RunScript(uploaded_file, days, session_state)

SpecBase == InitBase /\ [][FirstRun]_vars

-----------------------------------------------------------------------------
(* SpecFilter: one run of the script from any selection state, reachable  *)
(* through the widgets or not                                              *)

FilterSkus == {"None", "B"}
FilterCities == {"None", "Delhi"}

InitFilter ==
    /\ uploaded_file \in { <<f>> : f \in Workbooks(MaxFilterRows) }
    /\ days = DefaultDays
    /\ session_state \in
         { [pan_mode |-> m, selected_sku |-> s, selected_city |-> c] :
             m \in PanModes, s \in FilterSkus, c \in FilterCities }
    /\ display = "start"
    /\ InitRest

SpecFilter == InitFilter /\ [][FirstRun]_vars

-----------------------------------------------------------------------------
(* SpecDoi: calculate_doi on its own, on any one-row table *)

DoiUnits == 0..MaxUnits \cup {100}
DoiSales == 0..MaxSales \cup {30}

InitDoi ==
    /\ uploaded_file = <<>>
    /\ days \in 1..MaxDoiDays
    /\ session_state = NoSession
    /\ display = "start"
    /\ sales_df = {} /\ inventory_df = {} /\ base_df = {}
    /\ cache = <<>> /\ cache_hit = FALSE
    /\ temp \in { {[sku_description |-> "A", city |-> "Delhi",
                    sales_qty |-> s, inventory_units |-> u]} :
                  u \in DoiUnits, s \in DoiSales }
    /\ branch = 1
    /\ result_df = {}

CalculateDoi ==
    /\ display = "start"
    /\ result_df' = calculate_doi(temp, days)
    /\ display' = DisplayOf(result_df')
    /\ UNCHANGED <<uploaded_file, days, session_state, sales_df, inventory_df,
                   base_df, cache, cache_hit, temp, branch>>

SpecDoi == InitDoi /\ [][CalculateDoi]_vars

-----------------------------------------------------------------------------
(* Spec: the session, one script run per user interaction *)

FileA ==
    [Sales |-> { [date_range |-> 1, source_city_name |-> "Gurgaon",
                  source_sku_id |-> "S1", sku_description |-> "A",
                  total_quantity |-> 1],
                 [date_range |-> 2, source_city_name |-> "Mumbai",
                  source_sku_id |-> "S2", sku_description |-> "B",
                  total_quantity |-> 1] },
     Inventory |-> { [city |-> "Delhi", sku_id |-> "S1", sku_description |-> "A",
                      soh |-> 1] }]

FileB ==
    [Sales |-> { [date_range |-> 2, source_city_name |-> "Delhi",
                  source_sku_id |-> "S1", sku_description |-> "A",
                  total_quantity |-> 1] },
     Inventory |-> {}]

AppFiles == {FileA, FileB}
SkuChoices == {"None", "A", "B"}
CityChoices == {"None", "Delhi", "Mumbai"}
\* the window lengths entered in a session: the smallest the number_input
\* accepts, a larger one, and its default
DayChoices == {1, MaxDays, DefaultDays}

\* the state after the first run: no file yet, st.stop() at line 220
Init ==
    /\ uploaded_file = <<>>
    /\ days = DefaultDays
    /\ session_state = NoSession
    /\ display = "info_upload"
    /\ InitRest

\* the base table the next run will use
NextBase(f, n) ==
    LET pre == preprocess_data(f)
        key == CacheKey(pre[1], pre[2], n)
    IN  IF key \in DOMAIN cache THEN cache[key]
        ELSE create_doi_base(pre[1], pre[2], n)

\* A selectbox whose option list changed is built anew: a choice that is no
\* longer an option falls back to the first option, "None"; one that still is
\* an option is kept or falls back, depending on the Streamlit version.  No
\* callback runs for it.
Survivors(ss, old_base, new_base) ==
    IF DOMAIN ss = {} THEN {ss}
    ELSE { [pan_mode |-> ss.pan_mode, selected_sku |-> s, selected_city |-> c] :
             s \in { x \in {ss.selected_sku, "None"} :
                       /\ x \in sku_list(new_base)
                       /\ x = ss.selected_sku
                          \/ sku_list(new_base) # sku_list(old_base) },
             c \in { x \in {ss.selected_city, "None"} :
                       /\ x \in city_list(new_base)
                       /\ x = ss.selected_city
                          \/ city_list(new_base) # city_list(old_base) } }

\* the file_uploader gets a file
Upload(f) ==
    \E ss \in Survivors(session_state, base_df, NextBase(f, days)) :
        RunScript(<<f>>, days, ss)

\* the file_uploader goes back to None: the run stops at line 220 before the
\* selectboxes are rendered.  Lines 204-220 touch no key of the session
\* state; whether the keys of the widgets that were not rendered survive a
\* run ended by st.stop() is up to the Streamlit version, so both outcomes
\* are allowed.  The tables of the last run and the store stay as they were.
RemoveFile ==
    /\ uploaded_file # <<>>
    /\ \E ss \in {session_state, NoSession} : RunScript(<<>>, days, ss)

\* the number_input changes
ChangeDays(n) ==
    /\ n # days
    /\ IF uploaded_file = <<>>
       THEN RunScript(uploaded_file, n, session_state)
       ELSE \E ss \in Survivors(session_state, base_df, NextBase(uploaded_file[1], n)) :
                RunScript(uploaded_file, n, ss)

\* variant of reset_individual that forgets the city; C5 must tell the two apart
reset_individual_sku_only(ss) == [ss EXCEPT !.selected_sku = "None"]

\* variant of reset_pan that resets nothing; C6 must tell the two apart
reset_pan_noop(ss) == ss

\* lines 232-237
reset_individual(ss) == [ss EXCEPT !.selected_sku = "None", !.selected_city = "None"]
reset_pan(ss) == [ss EXCEPT !.pan_mode = "None"]

\* "Pan India View" changes: on_change=reset_individual, then the script runs
SelectPan(m) ==
    /\ uploaded_file # <<>>
    /\ m # session_state.pan_mode
    /\ RunScript(uploaded_file, days,
                 reset_individual([session_state EXCEPT !.pan_mode = m]))

\* "Individual SKU" changes: on_change=reset_pan, then the script runs
SelectSku(v) ==
    /\ uploaded_file # <<>>
    /\ v \in sku_list(base_df)
    /\ v # session_state.selected_sku
    /\ RunScript(uploaded_file, days,
                 reset_pan([session_state EXCEPT !.selected_sku = v]))

\* "Individual City" changes: on_change=reset_pan, then the script runs
SelectCity(v) ==
    /\ uploaded_file # <<>>
    /\ v \in city_list(base_df)
    /\ v # session_state.selected_city
    /\ RunScript(uploaded_file, days,
                 reset_pan([session_state EXCEPT !.selected_city = v]))

Next ==
    \/ \E f \in AppFiles : Upload(f)
    \/ RemoveFile
    \/ \E n \in DayChoices : ChangeDays(n)
    \/ \E m \in PanModes : SelectPan(m)
    \/ \E v \in SkuChoices : SelectSku(v)
    \/ \E v \in CityChoices : SelectCity(v)

Spec == Init /\ [][Next]_vars

-----------------------------------------------------------------------------
(* Properties *)

\* the script has run past st.stop() with a workbook
Ran == display \in {"info_select", "dataframe"}

Sku == session_state.selected_sku
City == session_state.selected_city
Mode == session_state.pan_mode

\* C1: the result is the view of the first matching rule in the order
\* SKU and city, SKU only, city only, "Product Wise", "City Wise", whatever
\* the other fields hold; with all three fields "None" the result is empty.
C1_FirstMatchingRule ==
    Ran =>
      /\ (Sku # "None" /\ City # "None") =>
            /\ branch = 1
            /\ result_df = calculate_doi(SkuCityView(base_df, Sku, City), days)
      /\ (Sku # "None" /\ City = "None") =>
            /\ branch = 2
            /\ result_df = calculate_doi(SkuView(base_df, Sku), days)
      /\ (Sku = "None" /\ City # "None") =>
            /\ branch = 3
            /\ result_df = calculate_doi(CityView(base_df, City), days)
      /\ (Sku = "None" /\ City = "None" /\ Mode = "Product Wise") =>
            /\ branch = 4
            /\ result_df = calculate_doi(ProductWiseView(base_df), days)
      /\ (Sku = "None" /\ City = "None" /\ Mode = "City Wise") =>
            /\ branch = 5
            /\ result_df = calculate_doi(CityWiseView(base_df), days)
      /\ (Sku = "None" /\ City = "None" /\ Mode = "None") =>
            /\ branch = 0
            /\ result_df = {}
            /\ display = "info_select"

\* C1 witness: SKU, city and "Product Wise" all set, and the (sku, city) view,
\* which differs from the pan-India view, is what is shown
C1_Witness ==
    /\ Ran /\ Sku # "None" /\ City # "None" /\ Mode = "Product Wise"
    /\ result_df # {}
    /\ result_df = calculate_doi(SkuCityView(base_df, Sku, City), days)
    /\ Cardinality(ProductWiseView(base_df)) > 1

\* C2: every row's doi is 0 when inventory_units = 0, inventory_units when
\* sales_qty = 0, and floor(inventory_units * days / sales_qty) otherwise.
C2_DoiFormula ==
    display # "start" =>
      \A r \in result_df :
        /\ r.doi >= 0
        /\ r.doi = IF r.inventory_units = 0 THEN 0
                   ELSE IF r.sales_qty = 0 THEN r.inventory_units
                   ELSE (r.inventory_units * days) \div r.sales_qty

\* the (sku_id, city) keys of a table
KeysOf(df) == { <<r.sku_id, r.city>> : r \in df }
RowsOfKey(df, k) == { r \in df : <<r.sku_id, r.city>> = k }

\* C3: every (sku_id, city) key of either normalized table is the key of
\* exactly one base row, with inventory_units = 0 for a key only in sales and
\* sales_qty = 0 for a key only in inventory (stated for a non-empty sales
\* table, which has a date to anchor the window).
C3_UnionComplete ==
    (Ran /\ sales_df # {}) =>
      \A k \in KeysOf(sales_df) \cup KeysOf(inventory_df) :
        /\ Cardinality(RowsOfKey(base_df, k)) = 1
        /\ k \notin KeysOf(inventory_df) =>
              \A r \in RowsOfKey(base_df, k) : r.inventory_units = 0
        /\ k \notin KeysOf(sales_df) =>
              \A r \in RowsOfKey(base_df, k) : r.sales_qty = 0

\* the latest date of a non-empty sales table
LatestDate(df) ==
    CHOOSE m \in { r.date_range : r \in df } : \A r \in df : r.date_range <= m

\* C4: each base row's sales_qty is the sum of its key's sales over the dates
\* max_date - (N-1) .. max_date, and over no other date.
C4_WindowCorrect ==
    (Ran /\ sales_df # {}) =>
      \A r \in base_df :
        r.sales_qty =
          SumField({ s \in RowsOfKey(sales_df, <<r.sku_id, r.city>>) :
                       s.date_range \in
                         (LatestDate(sales_df) - (days - 1))..LatestDate(sales_df) },
                   "sales_qty")

\* C4 witness: a key with a sale on max_date - N, left out, and a sale inside
\* the window, counted
C4_Witness ==
    /\ Ran /\ sales_df # {}
    /\ \E s \in sales_df, r \in base_df :
         /\ s.date_range = LatestDate(sales_df) - days
         /\ <<s.sku_id, s.city>> = <<r.sku_id, r.city>>
         /\ r.sales_qty > 0
         /\ r.sales_qty < SumField(RowsOfKey(sales_df, <<r.sku_id, r.city>>), "sales_qty")

\* C5: pan_mode is never set while a SKU or a city is selected.
C5_PanExcludesIndividual ==
    DOMAIN session_state # {} =>
      (Mode # "None" => (Sku = "None" /\ City = "None"))

\* C5 witness: a pan-India view is on display, SKU and city reset
C5_Witness ==
    /\ DOMAIN session_state # {}
    /\ Mode = "City Wise" /\ Sku = "None" /\ City = "None"
    /\ branch = 5 /\ display = "dataframe"

\* C6 as stated: at most one of the three fields differs from "None".
C6_AtMostOneActive ==
    DOMAIN session_state # {} =>
      Cardinality({ k \in SelectionKeys : session_state[k] # "None" }) <= 1

\* C6 as amended: a newly chosen pan_mode leaves SKU and city at "None"; a
\* newly chosen SKU (city) leaves pan_mode at "None" and the city (SKU) as it
\* was, so a SKU and a city can be active together (over the steps that have
\* the three fields before and after; removing the file drops them all).
C6_ResetRule ==
    [][ (DOMAIN session_state # {} /\ DOMAIN session_state' # {}) =>
          /\ (/\ session_state'.pan_mode # session_state.pan_mode
              /\ session_state'.pan_mode # "None") =>
                /\ session_state'.selected_sku = "None"
                /\ session_state'.selected_city = "None"
          /\ (/\ session_state'.selected_sku # session_state.selected_sku
              /\ session_state'.selected_sku # "None") =>
                /\ session_state'.pan_mode = "None"
                /\ session_state'.selected_city = session_state.selected_city
          /\ (/\ session_state'.selected_city # session_state.selected_city
              /\ session_state'.selected_city # "None") =>
                /\ session_state'.pan_mode = "None"
                /\ session_state'.selected_sku = session_state.selected_sku ]_vars

\* C6 witness: a SKU and a city are selected together, rule 1 serving them
C6_Witness ==
    /\ DOMAIN session_state # {}
    /\ Sku # "None" /\ City # "None" /\ Mode = "None"
    /\ branch = 1 /\ display = "dataframe"

\* C7: with no normalized sales row the run fails and leaves no base table.
C7_EmptySalesFails ==
    (display # "start" /\ uploaded_file # <<>> /\ sales_df = {}) =>
      (display = "exception" /\ base_df = {} /\ result_df = {})

\* C8: "please select" is shown exactly when all three fields are "None".
C8_NoSelectionDistinct ==
    Ran => (display = "info_select" <=>
              (Sku = "None" /\ City = "None" /\ Mode = "None"))

\* C9: the base table of the run is create_doi_base of the current inputs
\* and the current N, and every stored table is create_doi_base of its key.
C9_CacheCoherent ==
    /\ Ran => base_df = create_doi_base(SalesProcessed(uploaded_file[1].Sales),
                                        InventoryProcessed(uploaded_file[1].Inventory),
                                        days)
    /\ \A k \in DOMAIN cache : cache[k] = create_doi_base(k[1], k[2], k[3])

\* C9 witness: the run was served from the store, which also holds a
\* different table for the same inputs and another N
C9_Witness ==
    /\ Ran /\ cache_hit
    /\ \E k \in DOMAIN cache :
         /\ k[1] = sales_df /\ k[2] = inventory_df /\ k[3] # days
         /\ cache[k] # base_df

\* C10: the "Product Wise" rows, the "City Wise" rows and the base rows have
\* the same total sales_qty and the same total inventory_units, and every
\* description (city) of the base table is in exactly one result row.
C10_TotalsConserved ==
    Ran =>
      /\ \A col \in {"sales_qty", "inventory_units"} :
           /\ SumField(ProductWiseView(base_df), col) = SumField(base_df, col)
           /\ SumField(CityWiseView(base_df), col) = SumField(base_df, col)
      /\ \A r \in base_df :
           /\ Cardinality({ v \in ProductWiseView(base_df) :
                              v.sku_description = r.sku_description }) = 1
           /\ Cardinality({ v \in CityWiseView(base_df) : v.city = r.city }) = 1

\* C10 witness: a description spread over two cities and a city holding two
\* descriptions, with sales and stock
C10_Witness ==
    /\ Ran
    /\ \E r1, r2, r3 \in base_df :
         /\ r1.sku_description = r2.sku_description /\ r1.city # r2.city
         /\ r3.city = r1.city /\ r3.sku_description # r1.sku_description
    /\ SumField(base_df, "sales_qty") > 0
    /\ SumField(base_df, "inventory_units") > 0


=============================================================================
